---- MODULE Spec2Model ----
(***************************************************************************)
(* Puyo Puyo game component (src/app/page.tsx, PuyoGameComponent).         *)
(* The React state of the component is the state of the machine; every     *)
(* event handler (button click, key press, interval tick) is one action.   *)
(* State updates queued by a handler are applied together when it returns. *)
(***************************************************************************)
EXTENDS Integers, Sequences, FiniteSets, TLC

(* ---------------------------------------------------------------------- *)
(* Program constants                                                      *)
(* ---------------------------------------------------------------------- *)
GRID_ROWS == 12

GRID_COLS == 6

COLORS == <<"red", "green", "blue", "yellow">>

\* the empty cell (null in the source)
NULL == "null"

(* ---------------------------------------------------------------------- *)
(* Bounds of the model                                                    *)
(* ---------------------------------------------------------------------- *)
\* colours of the grids the resolver's functions are applied to on their own
FnColors == 2

\* landings (pieces committed to the grid) explored in one run
MaxPieces == 1

\* key presses and clicks of one run that move or turn the piece or toggle
\* the pause
MaxKeys == 1

\* candidate positions reach Margin cells beyond each edge of the grid
Margin == 1

Rows == 0 .. (GRID_ROWS - 1)

Cols == 0 .. (GRID_COLS - 1)

\* the colours randomPuyoColor draws in the games explored: two of COLORS
Palette == {COLORS[1], COLORS[2]}

\* what the mount effect can read back from localStorage
StoredHighScores == {0, 40}

\* the delay of setInterval (1000 ms), in the time units of gameLoop
Period == 2

\* gameLoop when no interval is set
NoLoop == -1

VARIABLES
    grid,          \* useState<Grid>: grid[y][x], row 0 is the top row
    gameState,     \* useState<GameState>
    score,         \* useState(0)
    currentPuyo,   \* useState<PuyoPair | null>
    nextPuyo,      \* useState<PuyoPair | null>
    chainCounter,  \* useState(0)
    isPaused,      \* useState(false)
    highScore,     \* useState(0)
    gameLoop,      \* the interval of the gameLoop effect: NoLoop, or the
                   \* time gone by since setInterval, in units of 1000/Period ms
    bound,         \* the state the registered handlers close over: that of
                   \* the render whose effects ran last
    last,          \* history: the handler that ran last and what it did
    used           \* history: how much of each bound the run has used

vars == <<grid, gameState, score, currentPuyo, nextPuyo, chainCounter,
          isPaused, highScore, gameLoop, bound, last, used>>

(* ---------------------------------------------------------------------- *)
(* Helper functions                                                       *)
(* ---------------------------------------------------------------------- *)
createEmptyGrid == [y \in Rows |-> [x \in Cols |-> NULL]]

\* a PuyoPair | null: null is the record whose colours are NULL
NoPuyo == [color1 |-> NULL, color2 |-> NULL, x |-> 0, y |-> 0, rotation |-> 0]

generatePuyoPair(c1, c2) ==
    [color1 |-> c1, color2 |-> c2, x |-> 2, y |-> 0, rotation |-> 0]

getSecondPuyoPosition(x, y, rotation) ==
    CASE rotation = 0 -> <<x, y - 1>>
      [] rotation = 1 -> <<x + 1, y>>
      [] rotation = 2 -> <<x, y + 1>>
      [] rotation = 3 -> <<x - 1, y>>
      [] OTHER -> <<x, y>>

\* isValidMove without the test of the second cell's content
isValidMove_AnchorOnly(g, puyo) ==
    LET x == puyo.x
        y == puyo.y
        p2 == getSecondPuyoPosition(x, y, puyo.rotation)
        x2 == p2[1]
        y2 == p2[2]
    IN  /\ x >= 0 /\ x < GRID_COLS /\ y >= 0 /\ y < GRID_ROWS
        /\ x2 >= 0 /\ x2 < GRID_COLS /\ y2 >= 0 /\ y2 < GRID_ROWS
        /\ g[y][x] = NULL

isValidMove(g, puyo) ==
    LET x == puyo.x
        y == puyo.y
        p2 == getSecondPuyoPosition(x, y, puyo.rotation)
        x2 == p2[1]
        y2 == p2[2]
    IN  /\ x >= 0 /\ x < GRID_COLS /\ y >= 0 /\ y < GRID_ROWS
        /\ x2 >= 0 /\ x2 < GRID_COLS /\ y2 >= 0 /\ y2 < GRID_ROWS
        /\ g[y][x] = NULL /\ g[y2][x2] = NULL

\* grid[y][x] = c on a row array; a write at a column that is no index of the
\* row sets a property of the array and leaves the cells alone
SetCell(g, x, y, c) ==
    IF x \in Cols THEN [g EXCEPT ![y][x] = c] ELSE g

(* ---------------------------------------------------------------------- *)
(* Match resolver                                                         *)
(* ---------------------------------------------------------------------- *)
\* the visited set holds the cells as <<x, y>>; the source keys them by the
\* string `${x},${y}`, which is one-to-one on pairs of integers
RECURSIVE findConnectedPuyos(_, _, _, _, _)
findConnectedPuyos(g, x, y, color, visited) ==
    IF \/ x < 0 \/ x >= GRID_COLS \/ y < 0 \/ y >= GRID_ROWS
       \/ g[y][x] # color \/ <<x, y>> \in visited
    THEN visited
    ELSE LET v0 == visited \cup {<<x, y>>}
             v1 == findConnectedPuyos(g, x + 1, y, color, v0)
             v2 == findConnectedPuyos(g, x - 1, y, color, v1)
             v3 == findConnectedPuyos(g, x, y + 1, color, v2)
         IN  findConnectedPuyos(g, x, y - 1, color, v3)

\* the inner loop of applyGravity without `newGrid[y][x] = null`
RECURSIVE GravityColumn_NoErase(_, _, _, _)
GravityColumn_NoErase(g, x, y, writeY) ==
    IF y < 0 THEN g
    ELSE IF g[y][x] # NULL
         THEN GravityColumn_NoErase([g EXCEPT ![writeY][x] = g[y][x]], x, y - 1,
                                    writeY - 1)
         ELSE GravityColumn_NoErase(g, x, y - 1, writeY)

\* the inner loop of applyGravity moving each cell down by one row at most
RECURSIVE GravityColumn_OneStep(_, _, _, _)
GravityColumn_OneStep(g, x, y, writeY) ==
    IF y < 0 THEN g
    ELSE IF g[y][x] # NULL /\ y + 1 < GRID_ROWS /\ g[y + 1][x] = NULL
         THEN GravityColumn_OneStep([g EXCEPT ![y + 1][x] = g[y][x], ![y][x] = NULL],
                                    x, y - 1, writeY)
         ELSE GravityColumn_OneStep(g, x, y - 1, writeY)

\* one column of applyGravity: the inner loop from row y up to row 0
RECURSIVE GravityColumn(_, _, _, _)
GravityColumn(g, x, y, writeY) ==
    IF y < 0 THEN g
    ELSE IF g[y][x] # NULL
         THEN LET g1 == [g EXCEPT ![writeY][x] = g[y][x]]
                  g2 == IF writeY # y THEN [g1 EXCEPT ![y][x] = NULL] ELSE g1
              IN  GravityColumn(g2, x, y - 1, writeY - 1)
         ELSE GravityColumn(g, x, y - 1, writeY)

RECURSIVE GravityFrom(_, _)
GravityFrom(g, x) ==
    IF x >= GRID_COLS THEN g
    ELSE GravityFrom(GravityColumn(g, x, GRID_ROWS - 1, GRID_ROWS - 1), x + 1)

applyGravity(g) == GravityFrom(g, 0)

\* the scan of one pass with `matches.size >= 3`
MatchedPuyos_AtLeast3(g) ==
    UNION {LET matches == findConnectedPuyos(g, c[1], c[2], g[c[2]][c[1]], {})
           IN  IF Cardinality(matches) >= 3 THEN matches ELSE {}
           : c \in {d \in Cols \X Rows : g[d[2]][d[1]] # NULL}}

\* the scan of one pass: the union of the groups of size >= 4
MatchedPuyos(g) ==
    UNION {LET matches == findConnectedPuyos(g, c[1], c[2], g[c[2]][c[1]], {})
           IN  IF Cardinality(matches) >= 4 THEN matches ELSE {}
           : c \in {d \in Cols \X Rows : g[d[2]][d[1]] # NULL}}

ClearMatched(g, matched) ==
    [y \in Rows |-> [x \in Cols |-> IF <<x, y>> \in matched THEN NULL ELSE g[y][x]]]

RECURSIVE Pow2(_)
Pow2(n) == IF n <= 0 THEN 1 ELSE 2 * Pow2(n - 1)

Max(a, b) == IF a >= b THEN a ELSE b

\* the points of a pass with chainMultiplier = Math.pow(2, chainCount)
PassPoints_ChainFromZero(puyosCleared, chainCount) ==
    LET chainMultiplier == Pow2(chainCount)
        groupSizeBonus == Max(0, puyosCleared - 4) * 5
    IN  puyosCleared * 10 * chainMultiplier + groupSizeBonus

PassPoints(puyosCleared, chainCount) ==
    LET chainMultiplier == Pow2(chainCount - 1)
        groupSizeBonus == Max(0, puyosCleared - 4) * 5
    IN  puyosCleared * 10 * chainMultiplier + groupSizeBonus

\* the loop of checkForMatches with `hasMatches` set only by a pass that
\* matched more than four cells
RECURSIVE ResolveLoop_LeavesFours(_)
ResolveLoop_LeavesFours(r) ==
    LET matchedPuyos == MatchedPuyos(r.grid)
        hasMatches == Cardinality(matchedPuyos) > 4
        chainCount == r.chainCount + 1
        puyosCleared == Cardinality(matchedPuyos)
    IN  IF hasMatches
        THEN ResolveLoop_LeavesFours(
                 [grid |-> applyGravity(ClearMatched(r.grid, matchedPuyos)),
                  chainCount |-> chainCount,
                  points |-> r.points + PassPoints(puyosCleared, chainCount),
                  cleared |-> Append(r.cleared, puyosCleared)])
        ELSE r

\* the loop of checkForMatches leaving after its first pass
ResolveLoop_OnePass(r) ==
    LET matchedPuyos == MatchedPuyos(r.grid)
        hasMatches == matchedPuyos # {}
        chainCount == r.chainCount + 1
        puyosCleared == Cardinality(matchedPuyos)
    IN  IF hasMatches
        THEN [grid |-> applyGravity(ClearMatched(r.grid, matchedPuyos)),
              chainCount |-> chainCount,
              points |-> r.points + PassPoints(puyosCleared, chainCount),
              cleared |-> Append(r.cleared, puyosCleared)]
        ELSE r

\* the do/while loop of checkForMatches: r is the loop state
\* [grid, chainCount, points (sum of the setScore increments), cleared (per pass)]
RECURSIVE ResolveLoop(_)
ResolveLoop(r) ==
    LET matchedPuyos == MatchedPuyos(r.grid)
        hasMatches == matchedPuyos # {}
        chainCount == r.chainCount + 1
        puyosCleared == Cardinality(matchedPuyos)
    IN  IF hasMatches
        THEN ResolveLoop([grid |-> applyGravity(ClearMatched(r.grid, matchedPuyos)),
                          chainCount |-> chainCount,
                          points |-> r.points + PassPoints(puyosCleared, chainCount),
                          cleared |-> Append(r.cleared, puyosCleared)])
        ELSE r

Resolve(g) ==
    ResolveLoop([grid |-> g, chainCount |-> 0, points |-> 0, cleared |-> <<>>])

\* checkForMatches with setScore(prevScore => prevScore - points)
checkForMatches_Subtracts(r, gen) ==
    [grid |-> r.grid,
     score |-> score - r.points,
     currentPuyo |-> nextPuyo,
     nextPuyo |-> gen,
     chainCounter |-> 0,
     gameState |-> IF \E x \in Cols : r.grid[1][x] # NULL THEN "over" ELSE gameState]

\* checkForMatches without the game-over check
checkForMatches_NeverOver(r, gen) ==
    [grid |-> r.grid,
     score |-> score + r.points,
     currentPuyo |-> nextPuyo,
     nextPuyo |-> gen,
     chainCounter |-> 0,
     gameState |-> gameState]

\* checkForMatches with the game-over check on newGrid[0]
checkForMatches_RowZero(r, gen) ==
    [grid |-> r.grid,
     score |-> score + r.points,
     currentPuyo |-> nextPuyo,
     nextPuyo |-> gen,
     chainCounter |-> 0,
     gameState |-> IF \E x \in Cols : r.grid[0][x] # NULL THEN "over" ELSE gameState]

\* checkForMatches: r is what the do/while loop leaves (Resolve(newGrid)), gen
\* the pair generatePuyoPair returns; the result is the state the queued
\* updates leave when the handler returns
checkForMatches(r, gen) ==
    [grid |-> r.grid,
     score |-> score + r.points,
     currentPuyo |-> nextPuyo,
     nextPuyo |-> gen,
     chainCounter |-> 0,
     gameState |-> IF \E x \in Cols : r.grid[1][x] # NULL THEN "over" ELSE gameState]

\* placePuyo writing color1 at the rejected target, one row below the anchor
PlaceFirst_AtTarget(g, puyo) == SetCell(g, puyo.x, puyo.y + 1, puyo.color1)

\* the two writes of placePuyo, in order; the second throws a TypeError when
\* its row is no row of the grid (newGrid[y2] is undefined)
PlaceFirst(g, puyo) == SetCell(g, puyo.x, puyo.y, puyo.color1)

PlaceSecond(g, puyo) ==
    LET p2 == getSecondPuyoPosition(puyo.x, puyo.y, puyo.rotation)
    IN  SetCell(g, p2[1], p2[2], puyo.color2)

PlaceThrows(puyo) ==
    getSecondPuyoPosition(puyo.x, puyo.y, puyo.rotation)[2] \notin Rows

\* history: the cells in which grid h differs from grid g, with their value in h
Written(g, h) ==
    {<<c[1], c[2], h[c[2]][c[1]]>> : c \in {d \in Cols \X Rows : h[d[2]][d[1]] # g[d[2]][d[1]]}}

(* ---------------------------------------------------------------------- *)
(* Games in progress the exploration starts from                          *)
(* ---------------------------------------------------------------------- *)
\* the row at which a piece held at column x with the given rotation comes to
\* rest when it is moved down from row y until the validator rejects the move
RECURSIVE RestRow(_, _, _, _)
RestRow(g, x, y, rotation) ==
    IF isValidMove(g, [NoPuyo EXCEPT !.x = x, !.y = y + 1, !.rotation = rotation])
    THEN RestRow(g, x, y + 1, rotation)
    ELSE y

\* the grid after the piece d = <<x, rotation, color1, color2>> has been steered
\* along rows 0 and 1 to column x and rotation d[2], and has fallen and landed
Dropped(g, d) ==
    LET puyo == [color1 |-> d[3], color2 |-> d[4], x |-> d[1],
                 y |-> RestRow(g, d[1], 1, d[2]), rotation |-> d[2]]
    IN  PlaceSecond(PlaceFirst(g, puyo), puyo)

RECURSIVE DroppedAll(_, _)
DroppedAll(g, script) ==
    IF script = <<>> THEN g
    ELSE DroppedAll(Dropped(g, Head(script)), Tail(script))

ScriptGrid(script) == DroppedAll(createEmptyGrid, script)

\* a stack one landing away from a two-pass chain, and a column one landing
\* away from row 1
ChainScript ==
    <<  <<3, 0, "red", "red">>, <<3, 0, "green", "green">>,
        <<2, 0, "red", "green">>, <<3, 0, "red", "green">> >>

TallScript ==
    <<  <<2, 0, "red", "red">>, <<2, 0, "green", "green">>,
        <<2, 0, "red", "red">>, <<2, 0, "green", "green">>,
        <<2, 0, "red", "red">> >>

Scripts == {ChainScript, TallScript}

\* every piece of a script lands without clearing anything and leaves rows 0
\* and 1 empty, so the game is still 'active' with score 0 after it
RECURSIVE ScriptQuiet(_, _)
ScriptQuiet(g, script) ==
    IF script = <<>> THEN TRUE
    ELSE LET g1 == Dropped(g, Head(script))
         IN  /\ isValidMove(g, [NoPuyo EXCEPT !.x = Head(script)[1], !.y = 1,
                                              !.rotation = Head(script)[2]])
             /\ MatchedPuyos(g1) = {}
             /\ \A x \in Cols : g1[0][x] = NULL /\ g1[1][x] = NULL
             /\ ScriptQuiet(g1, Tail(script))

(* ---------------------------------------------------------------------- *)
(* Handlers                                                               *)
(* ---------------------------------------------------------------------- *)
\* result: what the handler did ("started", "toggled", "ignored", "moved",
\* "rejected", "landed", "threw"); op: the request a "rejected" handler refused;
\* placed: the cells placePuyo changed, with the colour written; chainCount: the
\* loop's counter when checkForMatches left the loop; cleared: the number of
\* cells cleared in each pass
NoLast == [result |-> "none", op |-> "none", placed |-> {}, chainCount |-> 0,
           cleared |-> <<>>]

Note(result) == [NoLast EXCEPT !.result = result]

\* the high-score effect without the test `score > highScore`
HighScoreEffect_Unconditional(newScore) == newScore

\* the effect on [score, highScore] that runs after every render
HighScoreEffect(newScore) == IF newScore > highScore THEN newScore ELSE highScore

\* the state after construction: the useState initial values, with nothing
\* stored in localStorage for the mount effect to read
\* what the closures of a render hold of the state: handleKeyPress, movePuyo,
\* rotatePuyo, placePuyo and checkForMatches read these four; the rows of grid
\* are shared by every copy of the grid and are read as they are, and setScore
\* and setIsPaused are given functions of the previous value
Snapshot ==
    [currentPuyo |-> currentPuyo, nextPuyo |-> nextPuyo,
     gameState |-> gameState, isPaused |-> isPaused]

\* the gameLoop effect after a render: no interval unless 'active' and not
\* paused; the interval is cleared and set again when gameState, isPaused or
\* movePuyo has changed, and movePuyo changes with currentPuyo and grid; fired
\* says that the step is the interval's callback, whose period starts over
GameLoopEffect(fired) ==
    IF ~(gameState' = "active" /\ ~isPaused')
    THEN NoLoop
    ELSE IF /\ ~fired
            /\ gameLoop # NoLoop
            /\ <<gameState', isPaused', currentPuyo', grid'>> =
                  <<gameState, isPaused, currentPuyo, grid>>
         THEN gameLoop
         ELSE 0

\* the render that follows a handler, with its effects: handleKeyPress is
\* registered again and the gameLoop effect runs
Effects(fired) ==
    /\ bound' = Snapshot'
    /\ gameLoop' = GameLoopEffect(fired)

\* the effects of the first render
Mounted ==
    /\ bound = Snapshot
    /\ gameLoop = IF gameState = "active" /\ ~isPaused THEN 0 ELSE NoLoop

InitFresh ==
    /\ grid = createEmptyGrid
    /\ gameState = "title"
    /\ score = 0
    /\ currentPuyo = NoPuyo
    /\ nextPuyo = NoPuyo
    /\ chainCounter = 0
    /\ isPaused = FALSE
    /\ highScore = 0
    /\ last = NoLast
    /\ used = [pieces |-> 0, keys |-> 0]
    /\ Mounted

\* a game in progress: startGame, then the pieces of one of the Scripts landed
\* one after the other, none of them clearing anything, and the next piece
\* waiting at the spawn pose; the high score is the one the mount effect read
InitMid ==
    /\ grid \in {ScriptGrid(s) : s \in Scripts}
    /\ gameState = "active"
    /\ score = 0
    /\ \E c1, c2 \in Palette : currentPuyo = generatePuyoPair(c1, c2)
    /\ nextPuyo = generatePuyoPair("red", "green")
    /\ chainCounter = 0
    /\ isPaused = FALSE
    /\ highScore \in StoredHighScores
    /\ last = NoLast
    /\ used = [pieces |-> 0, keys |-> 0]
    /\ Mounted

Init == InitFresh \/ InitMid

\* startGame without setGrid(createEmptyGrid())
StartGame_KeepsGrid ==
    /\ gameState \in {"title", "over"}
    /\ \E c1, c2, c3, c4 \in Palette :
          /\ currentPuyo' = generatePuyoPair(c1, c2)
          /\ nextPuyo' = generatePuyoPair(c3, c4)
    /\ score' = 0
    /\ chainCounter' = 0
    /\ gameState' = "active"
    /\ isPaused' = FALSE
    /\ highScore' = HighScoreEffect(0)
    /\ last' = [result |-> "started", op |-> "none", placed |-> {},
                chainCount |-> 0, cleared |-> <<>>]
    /\ UNCHANGED <<grid, used>>

\* the Start Game / Play Again button, rendered in 'title' and in 'over'
StartGame ==
    /\ gameState \in {"title", "over"}
    /\ \E c1, c2, c3, c4 \in Palette :
          /\ currentPuyo' = generatePuyoPair(c1, c2)
          /\ nextPuyo' = generatePuyoPair(c3, c4)
    /\ grid' = createEmptyGrid
    /\ score' = 0
    /\ chainCounter' = 0
    /\ gameState' = "active"
    /\ isPaused' = FALSE
    /\ highScore' = HighScoreEffect(0)
    /\ last' = Note("started")
    /\ UNCHANGED used

togglePause ==
    /\ used.keys < MaxKeys
    /\ isPaused' = ~isPaused
    /\ last' = Note("toggled")
    /\ used' = [used EXCEPT !.keys = @ + 1]
    /\ UNCHANGED <<grid, gameState, score, currentPuyo, nextPuyo, chainCounter,
                   highScore>>

\* the Pause / Resume buttons, rendered in 'active' and whenever paused
ClickPause ==
    /\ gameState = "active" \/ isPaused
    /\ togglePause

\* handleKeyPress for Escape: togglePause, and no case of the switch
KeyEscape == togglePause

\* a handler that returns at its guard
Ignored ==
    /\ last' = Note("ignored")
    /\ UNCHANGED <<grid, gameState, score, currentPuyo, nextPuyo, chainCounter,
                   isPaused, highScore, used>>

Rejected(op) ==
    /\ last' = [Note("rejected") EXCEPT !.op = op]
    /\ UNCHANGED <<used, grid, gameState, score, currentPuyo, nextPuyo, chainCounter,
                   isPaused, highScore>>

Moved(op, newPuyo) ==
    /\ currentPuyo' = newPuyo
    /\ last' = Note("moved")
    /\ used' = IF op = "down" THEN used ELSE [used EXCEPT !.keys = @ + 1]
    /\ UNCHANGED <<grid, gameState, score, nextPuyo, chainCounter, isPaused,
                   highScore>>

placePuyo ==
    IF currentPuyo = NoPuyo
    THEN Ignored
    ELSE IF PlaceThrows(currentPuyo)
    THEN \* the first write has changed the row of the grid in place
         /\ grid' = PlaceFirst(grid, currentPuyo)
         /\ last' = [Note("threw") EXCEPT
                        !.placed = Written(grid, PlaceFirst(grid, currentPuyo))]
         /\ UNCHANGED <<gameState, score, currentPuyo, nextPuyo, chainCounter,
                        isPaused, highScore, used>>
    ELSE /\ used.pieces < MaxPieces
         /\ LET newGrid == PlaceSecond(PlaceFirst(grid, currentPuyo), currentPuyo)
                r == Resolve(newGrid)
            IN  \E c1, c2 \in Palette :
                  LET s == checkForMatches(r, generatePuyoPair(c1, c2))
                  IN  /\ grid' = s.grid
                      /\ score' = s.score
                      /\ currentPuyo' = s.currentPuyo
                      /\ nextPuyo' = s.nextPuyo
                      /\ chainCounter' = s.chainCounter
                      /\ gameState' = s.gameState
                      /\ highScore' = HighScoreEffect(s.score)
                      /\ last' = [Note("landed") EXCEPT
                                     !.placed = Written(grid, newGrid),
                                     !.chainCount = r.chainCount,
                                     !.cleared = r.cleared]
         /\ used' = [used EXCEPT !.pieces = @ + 1]
         /\ UNCHANGED isPaused

\* the run may still move the falling piece: the bound on landings caps the
\* play of an 'active' game only
MayPlay == used.pieces < MaxPieces \/ gameState # "active"

MovedPuyo(puyo, direction) ==
    [puyo EXCEPT !.x = IF direction = "left" THEN @ - 1
                       ELSE IF direction = "right" THEN @ + 1 ELSE @,
                 !.y = IF direction = "down" THEN @ + 1 ELSE @]

\* movePuyo without the test `gameState !== 'active'`
movePuyo_AnyGameState(direction) ==
    IF currentPuyo = NoPuyo \/ isPaused
    THEN Ignored
    ELSE LET newPuyo == MovedPuyo(currentPuyo, direction)
         IN  IF isValidMove(grid, newPuyo)
             THEN /\ MayPlay
                  /\ direction # "down" => used.keys < MaxKeys
                  /\ Moved(direction, newPuyo)
             ELSE IF direction = "down"
                  THEN placePuyo
                  ELSE /\ MayPlay
                       /\ Rejected(direction)

movePuyo(direction) ==
    IF currentPuyo = NoPuyo \/ gameState # "active" \/ isPaused
    THEN Ignored
    ELSE LET newPuyo == MovedPuyo(currentPuyo, direction)
         IN  IF isValidMove(grid, newPuyo)
             THEN /\ MayPlay
                  /\ direction # "down" => used.keys < MaxKeys
                  /\ Moved(direction, newPuyo)
             ELSE IF direction = "down"
                  THEN placePuyo
                  ELSE /\ MayPlay
                       /\ Rejected(direction)

\* the new orientation without `+ 4) % 4`
RotatedPuyo_NoWrap(puyo, direction) ==
    [puyo EXCEPT !.rotation = @ + (IF direction = "left" THEN -1 ELSE 1)]

RotatedPuyo(puyo, direction) ==
    [puyo EXCEPT !.rotation = (@ + (IF direction = "left" THEN -1 ELSE 1) + 4) % 4]

\* rotatePuyo without the call of isValidMove
rotatePuyo_NoValidation(direction) ==
    LET op == IF direction = "left" THEN "rotateLeft" ELSE "rotateRight"
    IN  IF currentPuyo = NoPuyo \/ gameState # "active" \/ isPaused
        THEN Ignored
        ELSE /\ MayPlay
             /\ used.keys < MaxKeys
             /\ Moved(op, RotatedPuyo(currentPuyo, direction))

rotatePuyo(direction) ==
    LET op == IF direction = "left" THEN "rotateLeft" ELSE "rotateRight"
    IN  IF currentPuyo = NoPuyo \/ gameState # "active" \/ isPaused
        THEN Ignored
        ELSE /\ MayPlay
             /\ LET newPuyo == RotatedPuyo(currentPuyo, direction)
                IN  IF isValidMove(grid, newPuyo)
                    THEN /\ used.keys < MaxKeys
                         /\ Moved(op, newPuyo)
                    ELSE Rejected(op)

\* handleKeyPress: `if (isPaused) return`, then the switch on the key
KeyA == IF isPaused THEN Ignored ELSE movePuyo("left")

KeyD == IF isPaused THEN Ignored ELSE movePuyo("right")

KeyS == IF isPaused THEN Ignored ELSE movePuyo("down")

KeyO == IF isPaused THEN Ignored ELSE rotatePuyo("left")

KeyP == IF isPaused THEN Ignored ELSE rotatePuyo("right")

\* the interval callback; the interval exists while 'active' and not paused
Tick ==
    /\ gameState = "active" /\ ~isPaused
    /\ movePuyo("down")

\* the game, one handler at a time, each followed by its render and effects;
\* the time between two handlers is left open: the interval's callback may be
\* the next handler whenever the interval is set
Next ==
    \/ StartGame /\ Effects(FALSE)
    \/ ClickPause /\ Effects(FALSE)
    \/ KeyEscape /\ Effects(FALSE)
    \/ KeyA /\ Effects(FALSE)
    \/ KeyD /\ Effects(FALSE)
    \/ KeyS /\ Effects(FALSE)
    \/ KeyO /\ Effects(FALSE)
    \/ KeyP /\ Effects(FALSE)
    \/ Tick /\ Effects(TRUE)

Spec == Init /\ [][Next]_vars

(* ---------------------------------------------------------------------- *)
(* The game with the time of the interval                                 *)
(* ---------------------------------------------------------------------- *)
\* a time unit goes by while the interval is set and not yet due
Tock ==
    /\ gameLoop # NoLoop
    /\ gameLoop < Period
    /\ gameLoop' = gameLoop + 1
    /\ UNCHANGED <<grid, gameState, score, currentPuyo, nextPuyo, chainCounter,
                   isPaused, highScore, bound, last, used>>

\* the interval's callback, run when the delay has gone by
TickDue ==
    /\ gameLoop = Period
    /\ Tick
    /\ Effects(TRUE)

NextLoop ==
    \/ StartGame /\ Effects(FALSE)
    \/ ClickPause /\ Effects(FALSE)
    \/ KeyEscape /\ Effects(FALSE)
    \/ KeyA /\ Effects(FALSE)
    \/ KeyD /\ Effects(FALSE)
    \/ KeyS /\ Effects(FALSE)
    \/ KeyO /\ Effects(FALSE)
    \/ KeyP /\ Effects(FALSE)
    \/ TickDue
    \/ Tock

\* time goes by, and a callback that is due runs
SpecLoop == Init /\ [][NextLoop]_vars /\ WF_vars(Tock) /\ WF_vars(TickDue)

(* ---------------------------------------------------------------------- *)
(* The game with the render after the interval's callback                 *)
(* ---------------------------------------------------------------------- *)
\* The updates of a keydown handler are rendered, and the effects run, before
\* the next task; the updates of the interval's callback are rendered in a
\* later task and the effects in one after that.  A key pressed in between
\* runs the handleKeyPress registered before the callback: its closures hold
\* `bound`, while the rows of the grid (shared by all copies) hold what the
\* callback wrote, and the updates it queues are applied after the callback's.

\* checkForMatches of the render b: setCurrentPuyo(nextPuyo) with b's nextPuyo
checkForMatchesOn(b, r, gen) ==
    [checkForMatches(r, gen) EXCEPT !.currentPuyo = b.nextPuyo]

\* what a handler of an older render does to the state when it returns at its
\* guard, refuses the request or moves the piece
LateIgnored ==
    /\ last' = Note("ignored")
    /\ UNCHANGED <<grid, gameState, score, currentPuyo, nextPuyo, chainCounter,
                   isPaused, highScore>>

LateRejected(op) ==
    /\ last' = [Note("rejected") EXCEPT !.op = op]
    /\ UNCHANGED <<grid, gameState, score, currentPuyo, nextPuyo, chainCounter,
                   isPaused, highScore>>

LateMoved(newPuyo) ==
    /\ currentPuyo' = newPuyo
    /\ last' = Note("moved")
    /\ UNCHANGED <<grid, gameState, score, nextPuyo, chainCounter, isPaused,
                   highScore>>

\* placePuyo of the render b
placePuyoOn(b) ==
    IF b.currentPuyo = NoPuyo
    THEN LateIgnored
    ELSE IF PlaceThrows(b.currentPuyo)
    THEN /\ grid' = PlaceFirst(grid, b.currentPuyo)
         /\ last' = [Note("threw") EXCEPT
                        !.placed = Written(grid, PlaceFirst(grid, b.currentPuyo))]
         /\ UNCHANGED <<gameState, score, currentPuyo, nextPuyo, chainCounter,
                        isPaused, highScore>>
    ELSE /\ LET newGrid == PlaceSecond(PlaceFirst(grid, b.currentPuyo), b.currentPuyo)
                r == Resolve(newGrid)
            IN  \E c1, c2 \in Palette :
                  LET s == checkForMatchesOn(b, r, generatePuyoPair(c1, c2))
                  IN  /\ grid' = s.grid
                      /\ score' = s.score
                      /\ currentPuyo' = s.currentPuyo
                      /\ nextPuyo' = s.nextPuyo
                      /\ chainCounter' = s.chainCounter
                      /\ gameState' = s.gameState
                      /\ highScore' = HighScoreEffect(s.score)
                      /\ last' = [Note("landed") EXCEPT
                                     !.placed = Written(grid, newGrid),
                                     !.chainCount = r.chainCount,
                                     !.cleared = r.cleared]
         /\ UNCHANGED isPaused

\* movePuyo of the render b
movePuyoOn(b, direction) ==
    IF b.currentPuyo = NoPuyo \/ b.gameState # "active" \/ b.isPaused
    THEN LateIgnored
    ELSE LET newPuyo == MovedPuyo(b.currentPuyo, direction)
         IN  IF isValidMove(grid, newPuyo)
             THEN LateMoved(newPuyo)
             ELSE IF direction = "down"
                  THEN placePuyoOn(b)
                  ELSE LateRejected(direction)

\* rotatePuyo of the render b
rotatePuyoOn(b, direction) ==
    LET op == IF direction = "left" THEN "rotateLeft" ELSE "rotateRight"
    IN  IF b.currentPuyo = NoPuyo \/ b.gameState # "active" \/ b.isPaused
        THEN LateIgnored
        ELSE LET newPuyo == RotatedPuyo(b.currentPuyo, direction)
             IN  IF isValidMove(grid, newPuyo)
                 THEN LateMoved(newPuyo)
                 ELSE LateRejected(op)

\* the interval's callback; its updates wait for a render
TickLate ==
    /\ bound = Snapshot
    /\ Tick
    /\ UNCHANGED <<bound, gameLoop>>

\* the render of the callback's updates and its effects
Rerender ==
    /\ bound # Snapshot
    /\ UNCHANGED <<grid, gameState, score, currentPuyo, nextPuyo, chainCounter,
                   isPaused, highScore, last, used>>
    /\ Effects(TRUE)

\* a key pressed after the callback and before Rerender: handleKeyPress of the
\* render before the callback runs, then its updates are rendered with the
\* callback's; the key press is one of the MaxKeys of the run
LateKey(handler) ==
    /\ bound # Snapshot
    /\ used.keys < MaxKeys
    /\ handler
    /\ used' = [used EXCEPT !.keys = @ + 1]
    /\ Effects(FALSE)

LateKeyA == LateKey(IF bound.isPaused THEN LateIgnored ELSE movePuyoOn(bound, "left"))

LateKeyD == LateKey(IF bound.isPaused THEN LateIgnored ELSE movePuyoOn(bound, "right"))

LateKeyS == LateKey(IF bound.isPaused THEN LateIgnored ELSE movePuyoOn(bound, "down"))

LateKeyO == LateKey(IF bound.isPaused THEN LateIgnored ELSE rotatePuyoOn(bound, "left"))

LateKeyP == LateKey(IF bound.isPaused THEN LateIgnored ELSE rotatePuyoOn(bound, "right"))

NextLate ==
    \/ bound = Snapshot /\ StartGame /\ Effects(FALSE)
    \/ bound = Snapshot /\ ClickPause /\ Effects(FALSE)
    \/ bound = Snapshot /\ KeyEscape /\ Effects(FALSE)
    \/ bound = Snapshot /\ KeyA /\ Effects(FALSE)
    \/ bound = Snapshot /\ KeyD /\ Effects(FALSE)
    \/ bound = Snapshot /\ KeyS /\ Effects(FALSE)
    \/ bound = Snapshot /\ KeyO /\ Effects(FALSE)
    \/ bound = Snapshot /\ KeyP /\ Effects(FALSE)
    \/ TickLate
    \/ Rerender
    \/ LateKeyA
    \/ LateKeyD
    \/ LateKeyS
    \/ LateKeyO
    \/ LateKeyP

SpecLate == Init /\ [][NextLate]_vars

(* ---------------------------------------------------------------------- *)
(* isValidMove applied to candidate pieces on bounded grids                *)
(* ---------------------------------------------------------------------- *)
\* the grid whose cells are f on DOMAIN f (a set of <<x, y>>) and empty elsewhere
GridOf(f) ==
    [y \in Rows |-> [x \in Cols |-> IF <<x, y>> \in DOMAIN f THEN f[<<x, y>>] ELSE NULL]]

\* cells at two opposite corners, each empty or filled
ValidCells == {<<0, 0>>, <<1, 0>>, <<0, 1>>, <<5, 11>>, <<4, 11>>, <<5, 10>>}

ValidGrids == {GridOf(f) : f \in [ValidCells -> {NULL, "red"}]}

Candidates ==
    {[color1 |-> "red", color2 |-> "green", x |-> x, y |-> y, rotation |-> rot] :
        x \in (0 - Margin) .. (GRID_COLS - 1 + Margin),
        y \in (0 - Margin) .. (GRID_ROWS - 1 + Margin),
        rot \in 0 .. 3}

InitValid ==
    /\ grid \in ValidGrids
    /\ gameState = "title"
    /\ score = 0
    /\ currentPuyo = NoPuyo
    /\ nextPuyo = NoPuyo
    /\ chainCounter = 0
    /\ isPaused = FALSE
    /\ highScore = 0
    /\ last = NoLast
    /\ used = [pieces |-> 0, keys |-> 0]
    /\ Mounted

\* one call isValidMove(candidate) on the grid: currentPuyo holds the candidate
\* and last.result the value returned; each run makes one call
CallIsValidMove ==
    /\ last = NoLast
    /\ \E puyo \in Candidates :
          /\ currentPuyo' = puyo
          /\ last' = Note(IF isValidMove(grid, puyo) THEN "valid" ELSE "invalid")
    /\ UNCHANGED <<grid, gameState, score, nextPuyo, chainCounter, isPaused,
                   highScore, gameLoop, bound, used>>

SpecValid == InitValid /\ [][CallIsValidMove]_vars

\* the offset of the second cell from the anchor, by orientation
SecondOffset == <<  <<0, -1>>, <<1, 0>>, <<0, 1>>, <<-1, 0>>  >>

\* the two cells of a piece with orientation in 0 .. 3: the anchor and the
\* second cell
PieceCells(puyo) ==
    {<<puyo.x, puyo.y>>,
     <<puyo.x + SecondOffset[puyo.rotation + 1][1],
       puyo.y + SecondOffset[puyo.rotation + 1][2]>>}

InGrid(c) == c[1] >= 0 /\ c[1] < 6 /\ c[2] >= 0 /\ c[2] < 12

\* both cells of the piece are inside the grid and empty in g
Legal(g, puyo) == \A c \in PieceCells(puyo) : InGrid(c) /\ g[c[2]][c[1]] = NULL

\* C1: isValidMove returns true exactly when the anchor cell and the second
\* cell of the candidate (orientation 0 .. 3) are both inside the 6 x 12 grid
\* and both empty; it accepts no candidate with a cell outside the grid or on
\* an occupied cell
C1_ValidIffInGridAndEmpty ==
    last.result \in {"valid", "invalid"} =>
        ((last.result = "valid") <=> Legal(grid, currentPuyo))

\* C1 witness: a candidate inside the grid with an empty anchor cell is refused
\* because its second cell is occupied
C1_Witness ==
    /\ last.result = "invalid"
    /\ \A c \in PieceCells(currentPuyo) : InGrid(c)
    /\ grid[currentPuyo.y][currentPuyo.x] = NULL
    /\ \E c \in PieceCells(currentPuyo) : grid[c[2]][c[1]] # NULL

(* ---------------------------------------------------------------------- *)
(* Landing                                                                *)
(* ---------------------------------------------------------------------- *)
\* the game is running, and the piece one row lower is not legal
DownRejected ==
    /\ gameState = "active" /\ ~isPaused /\ currentPuyo # NoPuyo
    /\ ~Legal(grid, [currentPuyo EXCEPT !.y = @ + 1])

\* the second cell of a piece
SecondCell(puyo) ==
    <<puyo.x + SecondOffset[puyo.rotation + 1][1],
      puyo.y + SecondOffset[puyo.rotation + 1][2]>>

\* a piece at the spawn pose with colours of the palette
IsSpawned(puyo) ==
    /\ puyo.x = 2 /\ puyo.y = 0 /\ puyo.rotation = 0
    /\ puyo.color1 \in {"red", "green", "blue", "yellow"}
    /\ puyo.color2 \in {"red", "green", "blue", "yellow"}

\* C2: a down request (key or fall tick) the validator rejects, in an active
\* unpaused game, commits the falling piece where it is: color1 is written at
\* the anchor and color2 at the second cell, not one row lower (when nothing is
\* cleared the grid changes in exactly these two cells), resolution runs, the
\* piece queued as next becomes the falling piece and a fresh next piece is
\* generated
C2_LandsWhereItIs ==
    [][(DownRejected /\ (KeyS \/ Tick)) =>
          /\ last'.result = "landed"
          /\ last'.placed =
                {<<currentPuyo.x, currentPuyo.y, currentPuyo.color1>>,
                 <<SecondCell(currentPuyo)[1], SecondCell(currentPuyo)[2],
                   currentPuyo.color2>>}
          /\ last'.cleared = <<>> =>
                \A x \in Cols, y \in Rows :
                    grid'[y][x] = IF <<x, y>> = <<currentPuyo.x, currentPuyo.y>>
                                  THEN currentPuyo.color1
                                  ELSE IF <<x, y>> = SecondCell(currentPuyo)
                                  THEN currentPuyo.color2
                                  ELSE grid[y][x]
          /\ currentPuyo' = nextPuyo
          /\ IsSpawned(nextPuyo')]_vars

\* C2 witness: a piece has landed on top of a stack (not on the floor) and the
\* piece that was queued has taken its place
C2_Witness ==
    /\ last.result = "landed"
    /\ last.cleared = <<>>
    /\ \E c \in last.placed : c[2] < GRID_ROWS - 2
    /\ IsSpawned(currentPuyo)

(* ---------------------------------------------------------------------- *)
(* The resolver's functions applied to bounded grids                      *)
(* ---------------------------------------------------------------------- *)
FnPalette == {COLORS[i] : i \in 1 .. FnColors}

\* a block at the bottom left and a block at the top right of the grid, with a
\* cell on the floor under the latter
FnWindows ==
    {(0 .. 1) \X ((GRID_ROWS - 4) .. (GRID_ROWS - 1)),
     ((GRID_COLS - 2) .. (GRID_COLS - 1)) \X {0, 1, GRID_ROWS - 1}}

InitFn ==
    /\ \E w \in FnWindows : \E f \in [w -> {NULL} \cup FnPalette] : grid = GridOf(f)
    /\ gameState = "title"
    /\ score = 0
    /\ currentPuyo = NoPuyo
    /\ nextPuyo = NoPuyo
    /\ chainCounter = 0
    /\ isPaused = FALSE
    /\ highScore = 0
    /\ last = NoLast
    /\ used = [pieces |-> 0, keys |-> 0]
    /\ Mounted

\* one call applyGravity(grid), and a second call on its result; last.placed
\* holds the cells the first call changed, last.op "again" marks the second
CallApplyGravity ==
    /\ last = NoLast \/ (last.result = "gravity" /\ last.op = "none")
    /\ grid' = applyGravity(grid)
    /\ last' = IF last = NoLast
               THEN [Note("gravity") EXCEPT !.placed = Written(grid, applyGravity(grid))]
               ELSE [last EXCEPT !.op = "again"]
    /\ UNCHANGED <<gameState, score, currentPuyo, nextPuyo, chainCounter, isPaused,
                   highScore, gameLoop, bound, used>>

\* the scan and the removal of one pass of checkForMatches' loop on the grid;
\* last.placed holds the cells the pass changed, last.cleared matchedPuyos.size
CallClearPass ==
    /\ last = NoLast
    /\ LET matchedPuyos == MatchedPuyos(grid)
           newGrid == ClearMatched(grid, matchedPuyos)
       IN  /\ grid' = newGrid
           /\ last' = [Note("pass") EXCEPT !.placed = Written(grid, newGrid),
                                           !.cleared = <<Cardinality(matchedPuyos)>>]
    /\ UNCHANGED <<gameState, score, currentPuyo, nextPuyo, chainCounter, isPaused,
                   highScore, gameLoop, bound, used>>

\* the do/while loop of checkForMatches run on the grid; last.cleared holds
\* matchedPuyos.size of every clearing pass, last.chainCount the final chainCount
CallResolve ==
    /\ last = NoLast
    /\ LET r == Resolve(grid)
       IN  /\ grid' = r.grid
           /\ last' = [Note("resolved") EXCEPT !.placed = Written(grid, r.grid),
                                               !.chainCount = r.chainCount,
                                               !.cleared = r.cleared]
    /\ UNCHANGED <<gameState, score, currentPuyo, nextPuyo, chainCounter, isPaused,
                   highScore, gameLoop, bound, used>>

NextFn == CallApplyGravity \/ CallClearPass \/ CallResolve

SpecFn == InitFn /\ [][NextFn]_vars

\* two cells that share a side
Adjacent(c, d) ==
    \/ c[1] = d[1] /\ (c[2] = d[2] + 1 \/ d[2] = c[2] + 1)
    \/ c[2] = d[2] /\ (c[1] = d[1] + 1 \/ d[1] = c[1] + 1)

\* the least set of cells of `same` that holds S and is closed under Adjacent
RECURSIVE Grow(_, _)
Grow(same, S) ==
    LET T == S \cup {d \in same : \E e \in S : Adjacent(d, e)}
    IN  IF T = S THEN S ELSE Grow(same, T)

Occupied(g) == {c \in Cols \X Rows : g[c[2]][c[1]] # NULL}

\* the group of the cell c among the occupied cells occ of g: the cells of its
\* colour joined to it by a chain of cells of that colour sharing sides
GroupIn(g, occ, c) ==
    Grow({d \in occ : g[d[2]][d[1]] = g[c[2]][c[1]]}, {c})

Group(g, c) == GroupIn(g, Occupied(g), c)

\* the cells of the groups of four cells or more
BigGroupCells(g) ==
    LET occ == Occupied(g)
    IN  {c \in occ : Cardinality(GroupIn(g, occ, c)) >= 4}

\* C3: the scan and removal of one pass empty exactly the cells of the groups
\* (cells of one colour joined through shared sides, no diagonals) of four or
\* more cells of the grid as it was when the pass began; every other cell, the
\* cells of the groups of one, two or three among them, keeps its content, and
\* the number of cells the pass counts as cleared is the number of those cells
C3_ClearsExactlyBigGroups ==
    [][last'.result = "pass" =>
          LET big == BigGroupCells(grid)
          IN  /\ \A c \in Cols \X Rows :
                    grid'[c[2]][c[1]] = IF c \in big THEN NULL ELSE grid[c[2]][c[1]]
              /\ last'.cleared = <<Cardinality(big)>>]_vars

\* C3 witness: a pass has emptied four cells and left a group of three cells of
\* one colour where it was
C3_Witness ==
    /\ last.result = "pass"
    /\ Cardinality(last.placed) = 4
    /\ \E c \in Occupied(grid) : Group(grid, c) = Occupied(grid)
                                   /\ Cardinality(Occupied(grid)) = 3

\* the colours of column x of g from the top row to the bottom row
RECURSIVE ColumnFrom(_, _, _)
ColumnFrom(g, x, y) ==
    IF y >= 12 THEN <<>>
    ELSE IF g[y][x] = NULL THEN ColumnFrom(g, x, y + 1)
         ELSE <<g[y][x]>> \o ColumnFrom(g, x, y + 1)

\* C6: applyGravity leaves in every column the colours that were in that
\* column, in the same order from top to bottom (hence the same multiset, and
\* nothing taken from or given to another column), on the lowest rows of the
\* column with every cell above them empty
C6_GravityCompactsColumns ==
    [][last'.result = "gravity" =>
          \A x \in 0 .. 5 :
            LET before == ColumnFrom(grid, x, 0)
            IN  /\ ColumnFrom(grid', x, 0) = before
                /\ \A y \in 0 .. 11 : grid'[y][x] # NULL <=> y >= 12 - Len(before)]_vars

\* C14: applyGravity applied to the grid applyGravity returned returns that
\* grid again
C14_GravityIdempotent ==
    [][(last.result = "gravity" /\ last'.op = "again") => grid' = grid]_vars

\* C14 witness: applyGravity changed the grid and was applied a second time
C14_Witness ==
    /\ last.result = "gravity"
    /\ last.op = "again"
    /\ last.placed # {}

\* q[1] + ... + q[n]
RECURSIVE SumSeq(_, _)
SumSeq(q, n) == IF n = 0 THEN 0 ELSE SumSeq(q, n - 1) + q[n]

\* C19: the loop of checkForMatches ends on every grid: each of its clearing
\* passes removes at least four cells, gravity removes and adds none, so there
\* are at most 18 clearing passes on the 72 cells, and the pass the loop ends
\* with finds no group to clear
C19_ResolveTerminates ==
    [][last'.result = "resolved" =>
          /\ Len(last'.cleared) <= 18
          /\ last'.chainCount = Len(last'.cleared)
          /\ \A i \in 1 .. Len(last'.cleared) : last'.cleared[i] >= 4
          /\ Cardinality(Occupied(grid')) =
                Cardinality(Occupied(grid)) - SumSeq(last'.cleared, Len(last'.cleared))
          /\ BigGroupCells(grid') = {}]_vars

\* C19 witness: the loop made two clearing passes and ended
C19_Witness ==
    /\ last.result = "resolved"
    /\ Len(last.cleared) = 2

\* C6 witness: applyGravity has moved cells in a column that holds both colours
C6_Witness ==
    /\ last.result = "gravity"
    /\ \E c \in last.placed :
          {grid[y][c[1]] : y \in Rows} \ {NULL} = {"red", "green"}

(* ---------------------------------------------------------------------- *)
(* Scoring and cascade                                                    *)
(* ---------------------------------------------------------------------- *)
\* cleared[i] * 10 * 2^(i-1) + max(0, cleared[i] - 4) * 5 summed over the passes
\* i = 1 .. n of a landing
RECURSIVE LandingPoints(_, _)
LandingPoints(cleared, n) ==
    IF n = 0 THEN 0
    ELSE LandingPoints(cleared, n - 1)
         + cleared[n] * 10 * (2 ^ (n - 1))
         + (IF cleared[n] > 4 THEN (cleared[n] - 4) * 5 ELSE 0)

\* C4: a landing adds to the score, for its i-th clearing pass (i from 1),
\* cleared * 10 * 2^(i-1) + max(0, cleared - 4) * 5, where cleared is the number
\* of cells that pass removed from the grid over all its groups; a landing that
\* clears nothing adds 0
C4_ScorePerPass ==
    [][last'.result = "landed" =>
          /\ score' - score = LandingPoints(last'.cleared, Len(last'.cleared))
          /\ Cardinality(Occupied(grid')) =
                Cardinality(Occupied(grid)) + 2
                  - SumSeq(last'.cleared, Len(last'.cleared))
          /\ last'.cleared = <<>> => score' = score]_vars

\* C4 witness: a landing cleared 4 cells in its first pass (40 points) and 5
\* cells in its second (105 points)
C4_Witness ==
    /\ last.result = "landed"
    /\ last.cleared = <<4, 5>>
    /\ score = 145

\* C5: no state between two events holds a group of four or more cells of one
\* colour joined through shared sides, and the chain depth a landing reaches
\* is the number of its passes that cleared something, each clearing at least
\* four cells
C5_CascadeToFixpoint ==
    /\ BigGroupCells(grid) = {}
    /\ last.result = "landed" =>
          /\ last.chainCount = Len(last.cleared)
          /\ \A i \in 1 .. Len(last.cleared) : last.cleared[i] >= 4

\* C5 witness: clearing one group let a second group form after gravity, and
\* the landing resolved both, reaching chain depth 2
C5_Witness ==
    /\ last.result = "landed"
    /\ last.chainCount = 2
    /\ Occupied(grid) # {}

(* ---------------------------------------------------------------------- *)
(* Game over                                                              *)
(* ---------------------------------------------------------------------- *)
\* C7: a landing leaves the game 'over' exactly when a cell of row 1 of the
\* resolved grid is occupied, whatever the score, and only a landing takes the
\* game to 'over'
C7_OverIffRowOne ==
    [][/\ last'.result = "landed" =>
             (gameState' = "over" <=> \E x \in 0 .. 5 : grid'[1][x] # NULL)
       /\ (gameState' = "over" /\ gameState # "over") => last'.result = "landed"
      ]_vars

\* C7 witness: a landing has ended the game with row 1 occupied and row 0 empty
C7_Witness ==
    /\ gameState = "over"
    /\ last.result = "landed"
    /\ \E x \in Cols : grid[1][x] # NULL
    /\ \A x \in Cols : grid[0][x] = NULL

(* ---------------------------------------------------------------------- *)
(* Requests                                                               *)
(* ---------------------------------------------------------------------- *)
\* C8: while the game is not 'active' or is paused, the left, right, down,
\* rotate-left and rotate-right keys and the fall tick change nothing of the
\* grid, the two pieces, the score, the chain depth, the game state and the
\* paused flag; while paused only togglePause or a start changes any of them
C8_InertUnlessActiveUnpaused ==
    [][/\ ((gameState # "active" \/ isPaused)
            /\ (KeyA \/ KeyD \/ KeyS \/ KeyO \/ KeyP \/ Tick)) =>
             UNCHANGED <<grid, currentPuyo, nextPuyo, score, chainCounter,
                         gameState, isPaused>>
       /\ (isPaused /\ <<grid, currentPuyo, nextPuyo, score, chainCounter,
                          gameState, isPaused>>' #
                        <<grid, currentPuyo, nextPuyo, score, chainCounter,
                          gameState, isPaused>>) =>
             last'.result \in {"toggled", "started"}
      ]_vars

\* C8 witness: a request was ignored in a paused game with a falling piece
C8_Witness ==
    /\ last.result = "ignored"
    /\ isPaused
    /\ gameState = "active"
    /\ currentPuyo # NoPuyo

\* the game is running with a falling piece
Running == gameState = "active" /\ ~isPaused /\ currentPuyo # NoPuyo

\* what a lateral or rotation request has to do with candidate cand
Sideways(cand) ==
    /\ UNCHANGED <<grid, score, nextPuyo, gameState, chainCounter, isPaused>>
    /\ last'.result # "landed"
    /\ currentPuyo' = IF Legal(grid, cand) THEN cand ELSE currentPuyo

\* C9: in a running game a left, right, rotate-left or rotate-right request
\* whose candidate is not legal leaves the falling piece, the grid, the score,
\* the next piece and the game state as they were and lands nothing; one whose
\* candidate is legal changes only the piece's column by 1 or its orientation
\* by one step modulo 4
C9_SidewaysOrNothing ==
    [][Running =>
          /\ KeyA => Sideways([currentPuyo EXCEPT !.x = @ - 1])
          /\ KeyD => Sideways([currentPuyo EXCEPT !.x = @ + 1])
          /\ KeyO => Sideways([currentPuyo EXCEPT !.rotation = (@ + 3) % 4])
          /\ KeyP => Sideways([currentPuyo EXCEPT !.rotation = (@ + 1) % 4])]_vars

\* C9 witness: a rotation towards an occupied neighbour cell was refused
C9_Witness ==
    /\ last.result = "rejected"
    /\ last.op = "rotateRight"
    /\ currentPuyo.rotation = 0
    /\ currentPuyo.y > 0
    /\ grid[currentPuyo.y][currentPuyo.x + 1] # NULL

\* C10: startGame leaves every cell of the grid empty, the score 0, the chain
\* depth 0, the game unpaused and 'active', and a falling piece and a next
\* piece at column 2, row 0, orientation 0 with colours of the palette, from
\* 'over' as from 'title'
C10_StartGameResets ==
    [][last'.result = "started" =>
          /\ gameState \in {"title", "over"}
          /\ \A x \in 0 .. 5, y \in 0 .. 11 : grid'[y][x] = NULL
          /\ score' = 0
          /\ chainCounter' = 0
          /\ isPaused' = FALSE
          /\ gameState' = "active"
          /\ IsSpawned(currentPuyo')
          /\ IsSpawned(nextPuyo')]_vars

\* C10 witness: the game was started again after a game that ended
C10_Witness ==
    /\ last.result = "started"
    /\ used.pieces > 0
    /\ gameState = "active"

(* ---------------------------------------------------------------------- *)
(* Game state, score and high score                                       *)
(* ---------------------------------------------------------------------- *)
\* C11: the game state moves only title -> active, active -> over and
\* over -> active, and the paused flag is set only in an 'active' game: it is
\* never true while the game state is 'title' or 'over'
C11_PausedOnlyWhileActive ==
    [][/\ gameState' # gameState =>
             <<gameState, gameState'>> \in
                 {<<"title", "active">>, <<"active", "over">>, <<"over", "active">>}
       /\ isPaused => gameState = "active"
       /\ isPaused' => gameState' = "active"]_vars

C13_HighScoreFollowsScore ==
    [][/\ highScore >= score /\ highScore' >= score'
       /\ highScore' >= highScore
       /\ highScore' # highScore => score' > highScore /\ highScore' = score']_vars

\* C13 witness: a landing has taken the score past the stored high score, and
\* the high score is now that score
C13_Witness ==
    /\ last.result = "landed"
    /\ score > 40
    /\ highScore = score

(* ---------------------------------------------------------------------- *)
(* The grid a landing leaves                                              *)
(* ---------------------------------------------------------------------- *)
\* no occupied cell of g has an empty cell directly below it
Settled(g) ==
    \A x \in 0 .. 5, y \in 0 .. 10 : g[y][x] # NULL => g[y + 1][x] # NULL

\* C15: the grid a landing's resolution leaves has no occupied cell with an
\* empty cell directly below it, also when the landing cleared nothing
C15_LandedGridSettled ==
    last.result = "landed" => Settled(grid)

\* g has 12 rows of 6 cells
WellShaped(g) ==
    /\ DOMAIN g = 0 .. 11
    /\ \A y \in 0 .. 11 : DOMAIN g[y] = 0 .. 5

LeftOf == <<3, 0, 1, 2>>
RightOf == <<1, 2, 3, 0>>

Orientations == 0 .. 3

C18_HandlersSeeLatestState ==
    [][/\ bound # Snapshot =>
             UNCHANGED <<grid, gameState, score, currentPuyo, nextPuyo,
                         chainCounter, isPaused, highScore, last, used>>
       /\ (last'.result = "landed" /\ last' # last) =>
             /\ bound.currentPuyo = currentPuyo
             /\ currentPuyo' = nextPuyo]_vars

\* the games in progress are games the handlers reach
ScriptsQuiet == \A s \in Scripts : ScriptQuiet(createEmptyGrid, s)

====
